---- MODULE Spec2Model ----
(***************************************************************************)
(* A model of the AI orchestration of the task backend: AIService          *)
(* (backend/task/ai_service.py) and the request handlers that call it      *)
(* (backend/task/task_router.py, backend/project/project_router.py).       *)
(*                                                                         *)
(* Floats are modelled in hundredths (0.55 is 55); a float value is a      *)
(* record so that NaN can be told from a number.  Texts are modelled by    *)
(* what the code reads of them: the keywords they contain and the number   *)
(* of lines they have.                                                     *)
(***************************************************************************)
EXTENDS Integers, Sequences, FiniteSets, TLC

(***************************************************************************)
(* Bounds of the model.                                                    *)
(***************************************************************************)
NTasks == 3
MaxCalls == 2
MaxRawSp == 26

(***************************************************************************)
(* Program constants.                                                      *)
(***************************************************************************)
DefaultStoryPoints == 3
DefaultConfidence == 60
PlaceholderConfidence == 55
HistoryLineThreshold == 80
HistoryBump == 2
HistoryBumpCap == 13
DefaultMaxHistoryTasks == 20

Allowed == <<1, 2, 3, 5, 8, 13, 21>>

AllowedSet == {Allowed[i] : i \in 1..Len(Allowed)}

Keywords ==
    {"auth", "login", "jwt", "database", "migration", "alembic",
     "api", "integration", "deployment", "docker"}

Abs(n) == IF n < 0 THEN -n ELSE n

(***************************************************************************)
(* Python's min(seq, key=...): the first element whose key is smallest.    *)
(***************************************************************************)
RECURSIVE MinByDistance(_, _, _, _)
MinByDistance(seq, i, best, sp) ==
    IF i > Len(seq) THEN best
    ELSE IF Abs(seq[i] - sp) < Abs(best - sp)
         THEN MinByDistance(seq, i + 1, seq[i], sp)
         ELSE MinByDistance(seq, i + 1, best, sp)

RECURSIVE MaxByDistance(_, _, _, _)
MaxByDistance(seq, i, best, sp) ==
    IF i > Len(seq) THEN best
    ELSE IF Abs(seq[i] - sp) <= Abs(best - sp)
         THEN MaxByDistance(seq, i + 1, seq[i], sp)
         ELSE MaxByDistance(seq, i + 1, best, sp)

\* A snap whose distance ties go to the later (higher) member.
SnapTieHigh(sp) ==
    IF sp \in AllowedSet THEN sp ELSE MaxByDistance(Allowed, 2, Allowed[1], sp)

\* A snap that leaves an out-of-set value as it is.
SnapMissing(sp) == sp

\* _estimate_openai: allowed = [...]; if sp not in allowed: sp = min(allowed, key=|x - sp|)
Snap(sp) ==
    IF sp \in AllowedSet THEN sp ELSE MinByDistance(Allowed, 2, Allowed[1], sp)

(***************************************************************************)
(* Floats, in hundredths.  A comparison with NaN is false, and Python's    *)
(* min(a, b) is a unless b < a, max(a, b) is a unless b > a.               *)
(***************************************************************************)
Num(v) == [k |-> "num", v |-> v]

NaN == [k |-> "nan", v |-> 0]

PyLess(a, b) == a.k = "num" /\ b.k = "num" /\ a.v < b.v

PyMin2(a, b) == IF PyLess(b, a) THEN b ELSE a

PyMax2(a, b) == IF PyLess(a, b) THEN b ELSE a

\* A clamp that forgets the lower bound.
Clamp01NoFloor(conf) == PyMin2(Num(100), conf)

\* A clamp that rounds every inside value up to 1.0.
Clamp01Saturating(conf) == IF PyLess(conf, Num(0)) THEN Num(0) ELSE Num(100)

\* _estimate_openai: conf = max(0.0, min(1.0, conf))
Clamp01(conf) == PyMax2(Num(0), PyMin2(Num(100), conf))

(***************************************************************************)
(* JSON values of the fields of a provider's answer, as int() and float()  *)
(* read them.  kind "int": a JSON integer v; "numstr": a string holding    *)
(* the integer v; "float": a JSON number of v hundredths; "nan": the JSON  *)
(* token NaN; "null": JSON null; "text": a non-numeric string; "missing":  *)
(* the key is absent.                                                      *)
(***************************************************************************)
Raw(kind, v) == [kind |-> kind, v |-> v]

TruncDiv(v, d) == IF v >= 0 THEN v \div d ELSE -((-v) \div d)

\* int(sp_raw), with its except branch: [ok, v]
IntCoerce(raw) ==
    CASE raw.kind = "int" -> [ok |-> TRUE, v |-> raw.v]
      [] raw.kind = "numstr" -> [ok |-> TRUE, v |-> raw.v]
      [] raw.kind = "float" -> [ok |-> TRUE, v |-> TruncDiv(raw.v, 100)]
      [] OTHER -> [ok |-> FALSE, v |-> 0]

\* float(conf_raw), with its except branch: [ok, f]
FloatCoerce(raw) ==
    CASE raw.kind = "int" -> [ok |-> TRUE, f |-> Num(raw.v * 100)]
      [] raw.kind = "numstr" -> [ok |-> TRUE, f |-> Num(raw.v * 100)]
      [] raw.kind = "float" -> [ok |-> TRUE, f |-> Num(raw.v)]
      [] raw.kind = "nan" -> [ok |-> TRUE, f |-> NaN]
      [] OTHER -> [ok |-> FALSE, f |-> Num(0)]

\* data.get("confidence", 0.6)
ConfidenceField(data) ==
    IF data.confidence.kind = "missing"
    THEN Raw("float", DefaultConfidence)
    ELSE data.confidence

\* sp = int(sp_raw), except: sp = 3
StoryPointsOrDefault(coerced) == IF coerced.ok THEN coerced.v ELSE DefaultStoryPoints

\* conf = float(conf_raw), except: conf = 0.6
ConfidenceOrDefault(coerced) == IF coerced.ok THEN coerced.f ELSE Num(DefaultConfidence)

\* The estimate record every generator returns.
Estimate(sp, conf, method) ==
    [story_points |-> sp, confidence |-> conf, method |-> method]

\* _estimate_openai, from the parsed mapping on: coercion, snap and clamp.
NormalizeEstimate(data) ==
    Estimate(Snap(StoryPointsOrDefault(IntCoerce(data.story_points))),
             Clamp01(ConfidenceOrDefault(FloatCoerce(ConfidenceField(data)))),
             "openai")

(***************************************************************************)
(* Texts.  A text is what the code reads of it: whether it is None, the    *)
(* keywords it contains, its number of lines, and whether the word "None"  *)
(* occurs in it.                                                           *)
(***************************************************************************)
Text(kw, lines) == [nil |-> FALSE, kw |-> kw, lines |-> lines, none_word |-> FALSE]

NoneText == [nil |-> TRUE, kw |-> {}, lines |-> 0, none_word |-> FALSE]

Max2(a, b) == IF a >= b THEN a ELSE b

Min2(a, b) == IF a <= b THEN a ELSE b

(***************************************************************************)
(* The rows the handlers read and never write: users, projects, and the    *)
(* project and title of each task.  Ids are given in creation order.       *)
(***************************************************************************)
TaskIds == 1..NTasks

Users == {1, 2}

Projects == {1, 2}

\* Project.user_id
ProjectOwner(p) == p

\* Task.project_id: every task belongs to project 1; project 2 has none.
ProjectOf(t) == 1

\* Task.title
TitleOf(t) ==
    CASE t = 1 -> Text({}, 1)
      [] t = 2 -> Text({"login", "api"}, 1)
      [] t = 3 -> Text({"auth", "docker", "database"}, 1)
      [] OTHER -> Text({"migration"}, 1)

\* Task.description as first stored.
InitialDescription(t) ==
    CASE t = 1 -> NoneText
      [] t = 2 -> Text({"jwt"}, 45)
      [] OTHER -> Text({}, 45)

\* A row of the tasks table, as far as the AI handlers read or write it;
\* estimated_story_points and ai_confidence are NULL until has_estimate.
TaskRow(status, description) ==
    [status |-> status, description |-> description,
     has_estimate |-> FALSE, estimated_story_points |-> 0, ai_confidence |-> Num(0),
     source |-> "manual", described_by |-> "none"]

\* A comparison with "done" that minds the case.
IsDoneExactCase(row) == row.status = "done"

\* (task.status or "").lower() == "done"
IsDone(row) == row.status \in {"done", "DONE"}

(***************************************************************************)
(* AIService: construction from the environment, and provider selection.   *)
(***************************************************************************)
\* (os.getenv("AI_PROVIDER", "placeholder") or "placeholder").strip().lower()
NormalizeProvider(raw) ==
    CASE raw = "" -> "placeholder"
      [] raw = " OpenAI " -> "openai"
      [] raw = "OPENAI" -> "openai"
      [] OTHER -> raw

\* AIService.__init__: sdk is "new" (from openai import OpenAI works), "old"
\* (only import openai works) or "none".
AIService(e) ==
    [provider |-> NormalizeProvider(e.AI_PROVIDER),
     openai_key |-> e.OPENAI_API_KEY,
     client |-> (e.sdk = "new" /\ e.OPENAI_API_KEY # ""),
     openai |-> (e.sdk \in {"new", "old"})]

\* A selection that forgets the credential.
ShouldUseOpenaiNoKey(svc) ==
    svc.provider = "openai" /\ (svc.client \/ svc.openai)

\* AIService._should_use_openai
ShouldUseOpenai(svc) ==
    /\ svc.provider = "openai"
    /\ svc.openai_key # ""
    /\ (svc.client \/ svc.openai)

(***************************************************************************)
(* The placeholder estimate.                                               *)
(***************************************************************************)
\* The keywords found in title or description.
ComplexityHits(payload) ==
    Cardinality({kw \in Keywords :
                    kw \in payload.title.kw \/ kw \in payload.description.kw})

\* A base score that goes on growing after the third hit.
BaseScoreUncapped(hits) ==
    CASE hits = 1 -> 3
      [] hits = 2 -> 5
      [] hits = 3 -> 8
      [] hits >= 4 -> 13
      [] OTHER -> 2

\* base = 2, 3, 5 or 8 by the number of hits.
BaseScore(hits) ==
    CASE hits = 1 -> 3
      [] hits = 2 -> 5
      [] hits >= 3 -> 8
      [] OTHER -> 2

\* if hist_len > 80: base = min(13, base + 2)
HistoryBumpedFromThreshold(base, hist_len) ==
    IF hist_len >= HistoryLineThreshold
    THEN Min2(HistoryBumpCap, base + HistoryBump)
    ELSE base

HistoryBumped(base, hist_len) ==
    IF hist_len > HistoryLineThreshold
    THEN Min2(HistoryBumpCap, base + HistoryBump)
    ELSE base

\* AIService._estimate_placeholder
EstimatePlaceholder(payload) ==
    Estimate(MinByDistance(Allowed, 2, Allowed[1],
                           HistoryBumped(BaseScore(ComplexityHits(payload)),
                                         payload.history.lines)),
             Num(PlaceholderConfidence), "placeholder")

IsSpace(c) == c \in {" ", "\n", "\t"}

RECURSIVE LStrip(_)
LStrip(s) == IF s # <<>> /\ IsSpace(Head(s)) THEN LStrip(Tail(s)) ELSE s

\* str.rstrip()
RECURSIVE RStrip(_)
RStrip(s) ==
    IF s # <<>> /\ IsSpace(s[Len(s)]) THEN RStrip(SubSeq(s, 1, Len(s) - 1)) ELSE s

\* str.strip()
Strip(s) == RStrip(LStrip(s))

\* "Estimated based on provided context."
DefaultRationale ==
    <<"E", "s", "t", "i", "m", "a", "t", "e", "d", " ", "b", "a", "s", "e",
      "d", " ", "o", "n", " ", "p", "r", "o", "v", "i", "d", "e", "d", " ",
      "c", "o", "n", "t", "e", "x", "t", ".">>

\* str(rat_raw or ""): a missing key reads as "", and null, "" and 0 are falsy.
RationaleText(raw) == IF raw.kind = "str" THEN raw.v ELSE <<>>

\* A rationale that is not stripped before the test.
RationaleUnstripped(raw) ==
    IF RationaleText(raw) = <<>> THEN DefaultRationale ELSE RationaleText(raw)

\* rationale = str(rat_raw or "").strip() or "Estimated based on provided context."
RationaleOrDefault(raw) ==
    IF Strip(RationaleText(raw)) = <<>> THEN DefaultRationale ELSE Strip(RationaleText(raw))

\* The mapping _estimate_openai returns, rationale included.
EstimateWithRationale(data) ==
    [story_points |-> NormalizeEstimate(data).story_points,
     confidence |-> NormalizeEstimate(data).confidence,
     rationale |-> RationaleOrDefault(data.rationale),
     method |-> NormalizeEstimate(data).method]

(***************************************************************************)
(* The upstream call.  An upstream outcome is an input of the model: the   *)
(* SDK raises (with or without "timeout" in its message) or answers with   *)
(* a text.  A text has a form: "empty", "garbage" (no JSON in it), "list"  *)
(* (valid JSON that is not an object) or "json" (an object, data).         *)
(***************************************************************************)
NoData == [story_points |-> Raw("missing", 0), confidence |-> Raw("missing", 0)]

\* The text of a reply is a body (a JSON object carrying data, another JSON
\* value, words, or nothing) between what the model put before and after it.
Wrapped(pre, form, data, post) ==
    [kind |-> "reply", timeout |-> FALSE, typed |-> FALSE, form |-> form, data |-> data,
     pre |-> pre, post |-> post]

Reply(form, data) == Wrapped(<<>>, form, data, <<>>)

\* An exception of the SDK: timeout says that its message contains "timeout",
\* typed that it is an instance of the SDK's Timeout error.
RaisesOf(timeout, typed) ==
    [kind |-> "raise", timeout |-> timeout, typed |-> typed, form |-> "empty",
     data |-> NoData, pre |-> <<>>, post |-> <<>>]

Raises(timeout) == RaisesOf(timeout, FALSE)

\* The result of a call that may raise: ok with a value, or the error raised.
\* requests counts the upstream round trips made, producer names the generator.
Ok(out, requests, producer) ==
    [ok |-> TRUE, err |-> "none", out |-> out, requests |-> requests, producer |-> producer]

Err(err, requests) ==
    [ok |-> FALSE, err |-> err, out |-> NoData, requests |-> requests, producer |-> "none"]

\* A text is the sequence of its lexemes: the code fence, the language tag,
\* white space, a word of prose, a lone brace, and a whole JSON value.
\* The code fence: three backquotes.
Fence == "fence"

JsonObject == "{...}"

JsonList == "[...]"

Word == "text"

Body(text) ==
    CASE text.form = "json" -> <<JsonObject>>
      [] text.form = "list" -> <<JsonList>>
      [] text.form = "garbage" -> <<Word>>
      [] OTHER -> <<>>

Lexemes(text) == text.pre \o Body(text) \o text.post

\* AIService._extract_text: the content, stripped.
ExtractText(up) == Strip(Lexemes(up))

\* The end of one SDK call.  by_type: the except clause also looks at the
\* type of the exception (the old SDK path).
ChatOutcomeAnyText(up, by_type) ==
    IF up.kind = "raise" THEN Err("AIServiceError", 1) ELSE Ok(up, 1, "openai")

ChatOutcome(up, by_type) ==
    IF up.kind = "raise"
    THEN IF by_type /\ up.typed THEN Err("Timeout", 1)
         ELSE IF up.timeout THEN Err("Timeout", 1)
         ELSE Err("AIServiceError", 1)
    ELSE IF ExtractText(up) = <<>>
         THEN Err("InvalidResponse", 1)
         ELSE Ok(up, 1, "openai")

\* AIService._openai_chat: one request through the new SDK client, else one
\* through the old SDK module, else "OpenAI SDK is not installed".
OpenaiChat(svc, up) ==
    IF svc.client THEN ChatOutcome(up, FALSE)
    ELSE IF svc.openai THEN ChatOutcome(up, TRUE)
    ELSE Err("AIServiceError", 0)

\* AIService._json_from_text.
\* (?:json)? under re.IGNORECASE
KeepTag(s) == s

DropTag(s) == IF s # <<>> /\ Head(s) \in {"json", "JSON"} THEN Tail(s) ELSE s

\* re.sub(r"^```(?:json)?\s*", "", s, flags=re.IGNORECASE)
RemoveOpeningFence(s) ==
    IF s # <<>> /\ Head(s) = Fence THEN LStrip(DropTag(Tail(s))) ELSE s

\* re.sub(r"\s*```$", "", s)
RemoveClosingFence(s) ==
    IF s # <<>> /\ s[Len(s)] = Fence THEN RStrip(SubSeq(s, 1, Len(s) - 1)) ELSE s

\* json.loads: one JSON value, white space around it allowed.
\* A pair of lone braces with nothing but white space between them is the
\* empty object.
EmptyObject(s) ==
    /\ Len(s) >= 2
    /\ s[1] = "{"
    /\ s[Len(s)] = "}"
    /\ \A i \in 2..(Len(s) - 1) : IsSpace(s[i])

JsonLoads(s) ==
    IF Len(Strip(s)) = 1 /\ Strip(s)[1] \in {JsonObject, JsonList}
    THEN Strip(s)[1]
    ELSE IF EmptyObject(Strip(s)) THEN "{}" ELSE "error"

Openers(s) == {i \in DOMAIN s : s[i] \in {"{", JsonObject}}

Closers(s) == {i \in DOMAIN s : s[i] \in {"}", JsonObject}}

First(S) == CHOOSE i \in S : \A j \in S : i <= j

Last(S) == CHOOSE i \in S : \A j \in S : j <= i

\* re.search(r"\{.*\}", s, flags=re.DOTALL): from the first opening brace to
\* the last closing brace, or nothing.
BraceSpan(s) ==
    IF Openers(s) = {} \/ Closers(s) = {} THEN <<>>
    ELSE IF Last(Closers(s)) < First(Openers(s)) THEN <<>>
    ELSE SubSeq(s, First(Openers(s)), Last(Closers(s)))

\* What json.loads returned, or the error raised in its place.
Parsed(value, text) ==
    CASE value = JsonObject -> Ok([object |-> TRUE, fields |-> text.data], 0, "openai")
      [] value = JsonList -> Ok([object |-> FALSE, fields |-> NoData], 0, "openai")
      [] value = "{}" -> Ok([object |-> TRUE, fields |-> NoData], 0, "openai")
      [] OTHER -> Err("InvalidResponse", 0)

\* _json_from_text after the fences are removed.
JsonFromFenceless(s, text) ==
    IF JsonLoads(s) # "error"
    THEN Parsed(JsonLoads(s), text)
    ELSE Parsed(JsonLoads(BraceSpan(s)), text)

\* _json_from_text after the strip.
JsonFromStripped(s, text) ==
    IF s = <<>>
    THEN Err("InvalidResponse", 0)
    ELSE JsonFromFenceless(RemoveClosingFence(RemoveOpeningFence(s)), text)

JsonFromText(text) == JsonFromStripped(Strip(Lexemes(text)), text)

\* _estimate_openai after the parse: data.get on a JSON value that is no
\* object raises AttributeError, an exception outside the AIServiceError family.
EstimateFromParsed(parsed, requests) ==
    IF ~parsed.ok THEN Err(parsed.err, requests)
    ELSE IF ~parsed.out.object THEN Err("Exception", requests)
    ELSE Ok(NormalizeEstimate(parsed.out.fields), requests, "openai")

\* _estimate_openai after the chat call.
EstimateFromChat(chat) ==
    IF ~chat.ok THEN chat ELSE EstimateFromParsed(JsonFromText(chat.out), chat.requests)

\* AIService._estimate_openai
EstimateOpenai(svc, payload, up) == EstimateFromChat(OpenaiChat(svc, up))

\* except AIServiceError: raise; except Exception: raise AIServiceError
WrapUnknown(r) ==
    IF ~r.ok /\ r.err = "Exception" THEN Err("AIServiceError", r.requests) ELSE r

\* AIService.estimate_effort
ServiceEstimateEffort(svc, payload, up) ==
    IF ShouldUseOpenai(svc)
    THEN WrapUnknown(EstimateOpenai(svc, payload, up))
    ELSE Ok(EstimatePlaceholder(payload), 0, "placeholder")

(***************************************************************************)
(* The history window.                                                     *)
(***************************************************************************)
RECURSIVE SortDesc(_)
SortDesc(S) ==
    IF S = {} THEN <<>>
    ELSE LET m == CHOOSE x \in S : \A y \in S : y <= x
         IN <<m>> \o SortDesc(S \ {m})

Take(seq, n) == SubSeq(seq, 1, Min2(n, Len(seq)))

\* A rendering that keeps the order of the query, newest first.
KeepOrder(seq) == seq

\* reversed(prev_tasks)
Reverse(seq) == [i \in 1..Len(seq) |-> seq[Len(seq) + 1 - i]]

\* The lines of "- {title} | status={status} | desc={description or ''}".
HistoryLineCount(t, row) == TitleOf(t).lines + Max2(row.description.lines, 1) - 1

RECURSIVE SumLines(_, _)
SumLines(ids, view) ==
    IF ids = <<>> THEN 0
    ELSE HistoryLineCount(Head(ids), view[Head(ids)]) + SumLines(Tail(ids), view)

NoHistory == [nil |-> TRUE, ids |-> <<>>, lines |-> 0]

\* A rendering that joins the lines even when there is none.
RenderHistoryAlways(ids, view) ==
    [nil |-> FALSE, ids |-> ids, lines |-> SumLines(ids, view)]

\* "\n".join(lines) if lines else None
RenderHistory(ids, view) ==
    IF ids = <<>> THEN NoHistory
    ELSE [nil |-> FALSE, ids |-> ids, lines |-> SumLines(ids, view)]

\* _build_history_text: the other tasks of the project, newest first, cut
\* to max_history_tasks, rendered oldest first; None when there is none.
BuildHistoryText(view, project_id, current_task_id, max_history_tasks) ==
    IF max_history_tasks <= 0 THEN NoHistory
    ELSE RenderHistory(
            Reverse(Take(SortDesc({t \in DOMAIN view : ProjectOf(t) = project_id
                                                       /\ t # current_task_id}),
                         max_history_tasks)),
            view)

\* The payload of an estimate call.
EstimatePayload(view, t, req) ==
    [title |-> TitleOf(t),
     description |-> view[t].description,
     history |-> IF req.include_history
                 THEN BuildHistoryText(view, ProjectOf(t), t, req.max_history_tasks)
                 ELSE NoHistory]

(***************************************************************************)
(* Truncation.  A string is the sequence of its characters.                *)
(***************************************************************************)
TruncateReserve == 20

\* "\n\n...[TRUNCATED]..."
Marker ==
    <<"\n", "\n", ".", ".", ".", "[", "T", "R", "U", "N", "C", "A", "T", "E", "D", "]",
      ".", ".", ".">>

\* s[:n]: the first n characters, or all but the last -n when n < 0.
PyPrefix(s, n) ==
    IF n >= 0 THEN SubSeq(s, 1, Min2(n, Len(s)))
    ELSE SubSeq(s, 1, Max2(Len(s) + n, 0))

\* _truncate after the strip.
TruncateStripped(s, max_chars) ==
    IF Len(s) <= max_chars THEN s
    ELSE RStrip(PyPrefix(s, max_chars - TruncateReserve)) \o Marker

\* AIService._truncate
Truncate(s, max_chars) == TruncateStripped(Strip(s), max_chars)

\* _build_kv_prompt: a field is written unless it is None or blank.
FieldShown(v) == ~v.nil /\ v.lines > 0

\* _build_kv_prompt: the keys of the prompt's lines.
PromptKeys(payload) == {k \in DOMAIN payload : FieldShown(payload[k])}

(***************************************************************************)
(* The placeholder description and the placeholder project summary.        *)
(***************************************************************************)
\* Project.name and Project.tech_stack
ProjectName(p) == Text({}, 1)

ProjectTechStack(p) == IF p = 1 THEN Text({}, 1) ELSE NoneText

\* Task.priority and Task.complexity ("medium" by default); assignee, tags
\* and infrastructure are None.
TaskPriority(t) == Text({}, 1)

TaskComplexity(t) == Text({}, 1)

\* The payload of a description call.
DescriptionPayload(view, t) ==
    [title |-> TitleOf(t),
     description |-> view[t].description,
     project_name |-> ProjectName(ProjectOf(t)),
     tech_stack |-> ProjectTechStack(ProjectOf(t)),
     priority |-> TaskPriority(t),
     complexity |-> TaskComplexity(t), assignee |-> NoneText, tags |-> NoneText,
     infrastructure |-> NoneText]

LabelledFields == <<"title", "description", "project_name", "tech_stack">>

ExtraFields == <<"priority", "complexity", "assignee", "tags", "infrastructure">>

\* "Acceptance criteria" (2 lines) and "Implementation notes" (3 lines).
StaticParts ==
    <<[key |-> "acceptance_criteria", text |-> Text({}, 2)],
      [key |-> "implementation_notes", text |-> Text({}, 3)]>>

\* One labelled part: f"<label>: {payload.get(key)}"
Part(payload, key) == [key |-> key, text |-> payload[key]]

\* if payload.get(extra_key)
Truthy(part) == ~part.text.nil /\ part.text.lines > 0

\* The parts list before the join.
Parts(payload) ==
    [i \in 1..Len(LabelledFields) |-> Part(payload, LabelledFields[i])]
    \o SelectSeq([i \in 1..Len(ExtraFields) |-> Part(payload, ExtraFields[i])], Truthy)
    \o StaticParts

\* p and "None" not in str(p): an absent field is formatted as the word None.
PartKept(part) == ~part.text.nil /\ ~part.text.none_word

RECURSIVE SumPartLines(_)
SumPartLines(parts) ==
    IF parts = <<>> THEN 0
    ELSE Max2(Head(parts).text.lines, 1) + SumPartLines(Tail(parts))

\* "\n\n".join of the kept parts: one blank line between any two parts.
JoinParts(parts) ==
    Text(UNION {parts[i].text.kw : i \in 1..Len(parts)},
         SumPartLines(parts) + Len(parts) - 1)

\* if not content.strip(): raise AIServiceInvalidResponseError
PlaceholderContent(parts) ==
    IF parts = <<>>
    THEN Err("InvalidResponse", 0)
    ELSE Ok(JoinParts(parts), 0, "placeholder")

\* The sections of the document, by the key of the field each one shows.
Sections(payload) ==
    [i \in 1..Len(SelectSeq(Parts(payload), PartKept)) |->
        SelectSeq(Parts(payload), PartKept)[i].key]

\* AIService._generate_placeholder_description
GeneratePlaceholderDescription(payload) ==
    PlaceholderContent(SelectSeq(Parts(payload), PartKept))

\* The text of an upstream reply, read as a description or a summary.
ReplyText(up) == IF up.form = "garbage" THEN Text({"api", "integration"}, 12) ELSE Text({}, 1)

\* _generate_openai and _project_summary_openai after the chat call.
TextFromChat(chat) ==
    IF ~chat.ok THEN chat ELSE Ok(ReplyText(chat.out), chat.requests, "openai")

\* AIService._generate_openai
GenerateOpenai(svc, payload, up) == TextFromChat(OpenaiChat(svc, up))

\* AIService.generate_description
ServiceGenerateDescription(svc, payload, up) ==
    IF ShouldUseOpenai(svc)
    THEN WrapUnknown(GenerateOpenai(svc, payload, up))
    ELSE GeneratePlaceholderDescription(payload)

\* The payload of a summary call: the project and its tasks in scope.
SummaryPayload(view, project_id, include_done) ==
    [project_name |-> ProjectName(project_id),
     tasks |-> {t \in TaskIds : ProjectOf(t) = project_id
                                /\ (include_done \/ view[t].status # "done")}]

\* AIService._project_summary_placeholder: 12 fixed lines and the task lines.
ProjectSummaryPlaceholder(payload) ==
    Text({}, 12 + Max2(Cardinality(payload.tasks), 1))

\* AIService._project_summary_openai
ProjectSummaryOpenai(svc, payload, up) == TextFromChat(OpenaiChat(svc, up))

\* AIService.generate_project_summary
ServiceGenerateProjectSummary(svc, payload, up) ==
    IF ShouldUseOpenai(svc)
    THEN WrapUnknown(ProjectSummaryOpenai(svc, payload, up))
    ELSE Ok(ProjectSummaryPlaceholder(payload), 0, "placeholder")

(***************************************************************************)
(* The try/except around a service call in the handlers.  A generation is  *)
(* the first attempt, the final result, the upstream requests made and     *)
(* the method the handler reports.                                         *)
(***************************************************************************)
Generation(first, final, method) ==
    [first |-> first, final |-> final,
     requests |-> first.requests + (IF first.ok THEN 0 ELSE final.requests),
     method |-> method]

\* fallback = AIService(); fallback.provider = "placeholder"
PlaceholderService(e) == [AIService(e) EXCEPT !.provider = "placeholder"]

\* A fallback that calls the configured service again.
FallbackNotForced(e, payload, up) == ServiceEstimateEffort(AIService(e), payload, up)

\* _fallback_placeholder_estimate
FallbackPlaceholderEstimate(e, payload, up) ==
    ServiceEstimateEffort(PlaceholderService(e), payload, up)

\* _fallback_placeholder_description
FallbackPlaceholderDescription(e, payload, up) ==
    ServiceGenerateDescription(PlaceholderService(e), payload, up)

\* _fallback_placeholder_project_summary
FallbackPlaceholderProjectSummary(e, payload, up) ==
    ServiceGenerateProjectSummary(PlaceholderService(e), payload, up)

\* try: out = ...estimate_effort(payload); except: out = fallback; the method
\* is the one the estimate carries.
EstimateWithFallback(first, fb) ==
    IF first.ok THEN Generation(first, first, first.out.method)
    ELSE IF fb.ok THEN Generation(first, fb, fb.out.method)
    ELSE Generation(first, fb, "none")

\* estimate_effort: the provider call and its except branches.
EstimateOrFallback(e, payload, up) ==
    EstimateWithFallback(ServiceEstimateEffort(AIService(e), payload, up),
                         FallbackPlaceholderEstimate(e, payload, up))

\* try: text = ...; method = ai_service.provider; except: fallback, "placeholder"
TextWithFallback(first, fb, provider) ==
    IF first.ok THEN Generation(first, first, provider)
    ELSE Generation(first, fb, "placeholder")

\* generate_ai_description and generate_descriptions_batch: the provider call.
DescribeOrFallback(e, payload, up) ==
    TextWithFallback(ServiceGenerateDescription(AIService(e), payload, up),
                     FallbackPlaceholderDescription(e, payload, up),
                     AIService(e).provider)

\* create_project_summary (both routers): the provider call.
SummarizeOrFallback(e, payload, up) ==
    TextWithFallback(ServiceGenerateProjectSummary(AIService(e), payload, up),
                     FallbackPlaceholderProjectSummary(e, payload, up),
                     AIService(e).provider)

\* What is recorded of the handling of one item or one call.
ItemRecord(t, gen, story_points) ==
    [task_id |-> t, first_err |-> gen.first.err, requests |-> gen.requests,
     producer |-> gen.final.producer, method |-> gen.method,
     story_points |-> story_points]

\* The record of an estimate.
EstimateRecord(t, gen) == ItemRecord(t, gen, gen.final.out.story_points)

NoItem ==
    [task_id |-> 0, first_err |-> "none", requests |-> 0,
     producer |-> "none", method |-> "none", story_points |-> 0]

(***************************************************************************)
(* The state.  env is the process environment and the installed SDK;       *)
(* tasks and notifs are the committed rows; sess is the SQLAlchemy session *)
(* of the batch request in progress (rows as the session sees them, and    *)
(* the notifications added and not yet committed); pc and loc are the      *)
(* position and the locals of that request; resp is the answer to the      *)
(* last finished request; calls counts the finished requests.  fnIn and    *)
(* fnOut are the argument and the result of a direct call of the estimate  *)
(* normalisation.                                                          *)
(***************************************************************************)
VARIABLES env, tasks, notifs, pc, sess, loc, resp, calls, fnIn, fnOut

vars == <<env, tasks, notifs, pc, sess, loc, resp, calls, fnIn, fnOut>>

RawProviders == {" OpenAI ", "", "local"}

Credentials == {"", "sk"}

Sdks == {"none", "old", "new"}

AiFlags == {"false", "1", " True "}

Environments ==
    [AI_ENABLED : AiFlags, AI_PROVIDER : RawProviders,
     OPENAI_API_KEY : Credentials, sdk : Sdks]

\* The statuses the tasks are created with.
InitialStatuses ==
    {<<"todo", "todo", "todo">>, <<"todo", "done", "in_progress">>,
     <<"done", "DONE", "done">>}

StatusOf(statuses, t) == IF t <= Len(statuses) THEN statuses[t] ELSE "todo"

\* EffortEstimateRequest: include_history, max_history_tasks (default 20).
HistoryRequests ==
    {[include_history |-> TRUE, max_history_tasks |-> DefaultMaxHistoryTasks],
     [include_history |-> FALSE, max_history_tasks |-> DefaultMaxHistoryTasks]}

\* The fields of an upstream JSON answer.
ReplyData ==
    {[story_points |-> Raw("int", 25), confidence |-> Raw("float", 170)],
     [story_points |-> Raw("text", 0), confidence |-> Raw("float", -30)]}

\* The upstream outcomes of an estimate call, and of a text call.
Upstreams ==
    {Raises(TRUE), Raises(FALSE), RaisesOf(FALSE, TRUE), Reply("empty", NoData),
     Reply("garbage", NoData), Reply("list", NoData)}
    \cup {Reply("json", d) : d \in ReplyData}

TextUpstreams ==
    {Raises(TRUE), Raises(FALSE), RaisesOf(FALSE, TRUE), Reply("empty", NoData),
     Reply("garbage", NoData)}

\* The upstream answers only when it is asked.
UpstreamsFor(e, ups) ==
    IF ShouldUseOpenai(AIService(e)) THEN ups ELSE {Reply("empty", NoData)}

Session(rows) == [tasks |-> rows, notifs |-> <<>>]

\* No service object: no batch is in progress.
NoService == [provider |-> "none", openai_key |-> "", client |-> FALSE, openai |-> FALSE]

NoLocals ==
    [op |-> "none", user_id |-> 0, project_id |-> 0,
     req |-> [include_history |-> FALSE, max_history_tasks |-> 0],
     items |-> <<>>, i |-> 0, responses |-> <<>>, updated_count |-> 0,
     failed |-> {}, last |-> NoItem, service |-> NoService]

\* The answer to a request: HTTP status, the cause of a failure, the body
\* (a list of results), and what is recorded of its handling.
Answer(op, status, cause, results, handled, failed, last) ==
    [op |-> op, status |-> status, cause |-> cause, results |-> results,
     handled |-> handled, failed |-> failed, last |-> last]

NoResponse == Answer("none", 0, "none", <<>>, 0, {}, NoItem)

Refusal(op, status, cause) == Answer(op, status, cause, <<>>, 0, {}, NoItem)

NoArg == [story_points |-> Raw("missing", 0), confidence |-> Raw("missing", 0)]

NoResult == Estimate(0, Num(0), "none")

Init ==
    /\ env \in Environments
    /\ \E statuses \in InitialStatuses :
          tasks = [t \in TaskIds |-> TaskRow(StatusOf(statuses, t), InitialDescription(t))]
    /\ notifs = <<>>
    /\ pc = "idle"
    /\ sess = Session(tasks)
    /\ loc = NoLocals
    /\ resp = NoResponse
    /\ calls = 0
    /\ fnIn = NoArg
    /\ fnOut = NoResult

(***************************************************************************)
(* What the handlers share.                                                *)
(***************************************************************************)
\* os.getenv("AI_ENABLED", "false").strip().lower()
NormalizeFlag(raw) ==
    CASE raw = " True " -> "true"
      [] raw = "TRUE" -> "true"
      [] OTHER -> raw

\* A flag that is on for every value that reads as true.
AiEnabledTruthy(e) == NormalizeFlag(e.AI_ENABLED) \in {"true", "1"}

\* _ai_enabled_or_503
AiEnabled(e) == NormalizeFlag(e.AI_ENABLED) = "true"

\* _notify: the row added to the session.
Notification(ntype, user_id, project_id, task_id, n) ==
    [type |-> ntype, user_id |-> user_id, project_id |-> project_id,
     task_id |-> task_id, n |-> n]

\* _get_owned_project
OwnsProject(user_id, project_id) ==
    project_id \in Projects /\ ProjectOwner(project_id) = user_id

\* A lookup of the task by its id alone.
TaskOfAnyUser(user_id, t) == t \in TaskIds

\* _get_owned_task
OwnsTask(user_id, t) == t \in TaskIds /\ ProjectOwner(ProjectOf(t)) = user_id

\* db.query(Task).filter(Task.project_id == project_id).all(), by id
ProjectTasks(project_id) ==
    Reverse(SortDesc({t \in TaskIds : ProjectOf(t) = project_id}))

\* task.estimated_story_points, task.ai_confidence, task.source = ...
ApplyEstimate(row, out) ==
    [row EXCEPT !.has_estimate = TRUE,
                !.estimated_story_points = out.story_points,
                !.ai_confidence = out.confidence,
                !.source = out.method]

\* EffortEstimateResponse(...) built from the task
EstimateResponse(t, row) ==
    [task_id |-> t, story_points |-> row.estimated_story_points,
     confidence |-> row.ai_confidence, method |-> row.source]

\* f"ai_description:{method}"
DescriptionSource(method) ==
    CASE method = "openai" -> "ai_description:openai"
      [] method = "placeholder" -> "ai_description:placeholder"
      [] method = "local" -> "ai_description:local"
      [] OTHER -> "ai_description:other"

\* task.description = generated; task.source = f"ai_description:{method}";
\* described_by records the generator that wrote the text.
ApplyDescription(row, gen) ==
    [row EXCEPT !.description = gen.final.out,
                !.source = DescriptionSource(gen.method),
                !.described_by = gen.final.producer]

\* TaskRead of a task whose description was generated
DescriptionResponse(t, row) ==
    [task_id |-> t, method |-> row.source, producer |-> row.described_by]

\* A list that grows at its head.
PrependResponse(responses, r) == <<r>> \o responses

\* responses.append(...)
AppendResponse(responses, r) == Append(responses, r)

\* The request ends: the rows committed, the answer, the session closed.
Done(newTasks, newNotifs, answer) ==
    /\ tasks' = newTasks
    /\ notifs' = newNotifs
    /\ resp' = answer
    /\ calls' = calls + 1
    /\ pc' = "idle"
    /\ sess' = Session(newTasks)
    /\ loc' = NoLocals
    /\ UNCHANGED <<env, fnIn, fnOut>>

\* raise HTTPException(...), or an exception nothing catches (500).
Refuse(op, status, cause) == Done(tasks, notifs, Refusal(op, status, cause))

(***************************************************************************)
(* POST /tasks/{task_id}/estimate                                          *)
(***************************************************************************)
\* The collaborator failures a single request can meet: the history query
\* raises, or the commit raises.
SingleFailures == {"none", "history", "commit"}

\* _build_history_text queries the database only in this case.
QueriesHistory(req) == req.include_history /\ req.max_history_tasks > 0

\* A failed commit whose pending changes are stored all the same.
KeepPending(committed, pending) == pending

\* except Exception: db.rollback(): the pending changes are dropped.
Undo(committed, pending) == committed

\* A handler that answers 200 whatever the generation did.
PersistEstimateSwallowing(uid, t, fail, gen) ==
    Done(tasks,
         Append(notifs, Notification("ai_estimate_done", uid, ProjectOf(t), t, 0)),
         Answer("estimate", 200, "none", <<>>, 1, {}, ItemRecord(t, gen, 0)))

\* estimate_effort from the persistence block on.
PersistEstimate(uid, t, fail, gen) ==
    IF ~gen.final.ok
    THEN Done(tasks, notifs,
              Answer("estimate", 500, "generation", <<>>, 1, {t}, ItemRecord(t, gen, 0)))
    ELSE IF fail = "commit"
    THEN Done(Undo(tasks, [tasks EXCEPT ![t] = ApplyEstimate(@, gen.final.out)]),
              Undo(notifs, Append(notifs,
                                  Notification("ai_estimate_done", uid, ProjectOf(t), t, 0))),
              Answer("estimate", 500, "persist", <<>>, 1, {t},
                     EstimateRecord(t, gen)))
    ELSE Done([tasks EXCEPT ![t] = ApplyEstimate(@, gen.final.out)],
              Append(notifs, Notification("ai_estimate_done", uid, ProjectOf(t), t, 0)),
              Answer("estimate", 200, "none",
                     <<EstimateResponse(t, ApplyEstimate(tasks[t], gen.final.out))>>,
                     1, {}, EstimateRecord(t, gen)))

EstimateEffort(uid, t) ==
    /\ pc = "idle"
    /\ calls < MaxCalls
    /\ IF ~AiEnabled(env) THEN Refuse("estimate", 503, "ai_disabled")
       ELSE IF ~OwnsTask(uid, t) THEN Refuse("estimate", 404, "task_not_found")
       ELSE IF IsDone(tasks[t]) THEN Refuse("estimate", 409, "done")
       ELSE \E req \in HistoryRequests, up \in UpstreamsFor(env, Upstreams),
               fail \in SingleFailures :
               IF fail = "history"
               THEN QueriesHistory(req) /\ Refuse("estimate", 500, "history")
               ELSE PersistEstimate(uid, t, fail,
                        EstimateOrFallback(env, EstimatePayload(tasks, t, req), up))

(***************************************************************************)
(* POST /tasks/ai/estimate-effort                                          *)
(***************************************************************************)
\* The collaborator failures an item can meet: the history query raises,
\* or the assignment of the result to the row raises.
ItemFailures == {"none", "history", "assign"}

\* A rollback that undoes the changes of one task only.
RollbackItemOnly(s, committed, t) ==
    [tasks |-> [s.tasks EXCEPT ![t] = committed[t]], notifs |-> s.notifs]

\* db.rollback(): every pending change of the session is dropped.
Rollback(s, committed, t) == Session(committed)

\* A fallback that switches the batch's own service to the placeholder.
SharedServiceSwitched(svc, gen) ==
    IF gen.first.ok THEN svc ELSE [svc EXCEPT !.provider = "placeholder"]

\* The batch's service after an item: the fallback helper builds a service
\* of its own and sets the provider of that one.
SharedService(svc, gen) == svc

\* A batch request enters its loop; ai_service = AIService() is made once.
EnterLoop(op, uid, project_id, req, items) ==
    /\ pc' = op
    /\ sess' = Session(tasks)
    /\ loc' = [NoLocals EXCEPT !.op = op, !.user_id = uid, !.project_id = project_id,
                               !.req = req, !.items = items, !.i = 1,
                               !.service = AIService(env)]
    /\ resp' = NoResponse
    /\ UNCHANGED <<env, tasks, notifs, calls, fnIn, fnOut>>

\* The loop goes on with new locals and a new session.
Continue(newSess, newLoc) ==
    /\ sess' = newSess
    /\ loc' = [newLoc EXCEPT !.i = @ + 1]
    /\ UNCHANGED <<env, tasks, notifs, pc, resp, calls, fnIn, fnOut>>

\* An exception leaves the loop: nothing is committed, the answer is 500.
Abort(cause) ==
    Done(tasks, notifs,
         Answer(loc.op, 500, cause, <<>>, loc.i - 1, loc.failed, loc.last))

EstimateEffortAllStart(uid, project_id) ==
    /\ pc = "idle"
    /\ calls < MaxCalls
    /\ IF ~AiEnabled(env) THEN Refuse("estimate_all", 503, "ai_disabled")
       ELSE IF ~OwnsProject(uid, project_id)
       THEN Refuse("estimate_all", 404, "project_not_found")
       ELSE IF ProjectTasks(project_id) = <<>>
       THEN Refuse("estimate_all", 404, "no_tasks")
       ELSE \E req \in HistoryRequests :
               EnterLoop("estimate_all", uid, project_id, req, ProjectTasks(project_id))

\* The second try block of the loop body.
PersistEstimateItem(t, fail, gen) ==
    IF ~gen.final.ok
    THEN Abort("generation")
    ELSE IF fail = "assign"
    THEN Continue(Rollback(sess, tasks, t),
                  [loc EXCEPT !.failed = @ \cup {t},
                              !.last = EstimateRecord(t, gen),
                              !.service = SharedService(@, gen)])
    ELSE Continue([tasks |-> [sess.tasks EXCEPT ![t] = ApplyEstimate(@, gen.final.out)],
                   notifs |-> Append(sess.notifs,
                                     Notification("ai_estimate_done", loc.user_id,
                                                  ProjectOf(t), t, 0))],
                  [loc EXCEPT !.updated_count = @ + 1,
                              !.responses = AppendResponse(@,
                                  EstimateResponse(t, ApplyEstimate(sess.tasks[t],
                                                                    gen.final.out))),
                              !.last = EstimateRecord(t, gen),
                              !.service = SharedService(@, gen)])

\* One turn of the loop, for task t.
EstimateItem(t) ==
    IF IsDone(sess.tasks[t])
    THEN Continue(sess, loc)
    ELSE \E up \in UpstreamsFor(env, Upstreams), fail \in ItemFailures :
            IF fail = "history"
            THEN QueriesHistory(loc.req) /\ Abort("history")
            ELSE PersistEstimateItem(t, fail,
                     EstimateWithFallback(
                         ServiceEstimateEffort(loc.service,
                                               EstimatePayload(sess.tasks, t, loc.req), up),
                         FallbackPlaceholderEstimate(env,
                                               EstimatePayload(sess.tasks, t, loc.req), up)))

EstimateEffortAllItem ==
    /\ pc = "estimate_all"
    /\ loc.i <= Len(loc.items)
    /\ EstimateItem(loc.items[loc.i])

\* After the loop: the batch notification, the commit, the answer.
EstimateEffortAllFinish(commit_fails) ==
    /\ pc = "estimate_all"
    /\ loc.i > Len(loc.items)
    /\ IF commit_fails
       THEN Abort("commit")
       ELSE Done(sess.tasks,
                 notifs \o sess.notifs
                   \o <<Notification("ai_batch_done", loc.user_id, loc.project_id, 0,
                                     loc.updated_count)>>,
                 Answer("estimate_all", 200, "none", loc.responses,
                        Len(loc.items), loc.failed, loc.last))

(***************************************************************************)
(* POST /tasks/{task_id}/ai-description                                    *)
(***************************************************************************)
\* generate_ai_description after the provider call: no try block here.
PersistDescription(uid, t, commit_fails, gen) ==
    IF ~gen.final.ok
    THEN Done(tasks, notifs,
              Answer("describe", 500, "generation", <<>>, 1, {t}, ItemRecord(t, gen, 0)))
    ELSE IF commit_fails
    THEN Done(tasks, notifs,
              Answer("describe", 500, "commit", <<>>, 1, {t}, ItemRecord(t, gen, 0)))
    ELSE Done([tasks EXCEPT ![t] = ApplyDescription(@, gen)],
              Append(notifs,
                     Notification("ai_description_generated", uid, ProjectOf(t), t, 0)),
              Answer("describe", 200, "none",
                     <<DescriptionResponse(t, ApplyDescription(tasks[t], gen))>>,
                     1, {}, ItemRecord(t, gen, 0)))

GenerateAiDescription(uid, t) ==
    /\ pc = "idle"
    /\ calls < MaxCalls
    /\ IF ~AiEnabled(env) THEN Refuse("describe", 503, "ai_disabled")
       ELSE IF ~OwnsTask(uid, t) THEN Refuse("describe", 404, "task_not_found")
       ELSE \E up \in UpstreamsFor(env, TextUpstreams), commit_fails \in BOOLEAN :
               PersistDescription(uid, t, commit_fails,
                   DescribeOrFallback(env, DescriptionPayload(tasks, t), up))

(***************************************************************************)
(* POST /tasks/ai/generate-descriptions                                    *)
(***************************************************************************)
\* q.filter(Task.status != "done") unless include_done, then q.all()
DescriptionScope(project_id, include_done) ==
    SelectSeq(ProjectTasks(project_id),
              LAMBDA t : include_done \/ tasks[t].status # "done")

GenerateDescriptionsBatchStart(uid, project_id) ==
    /\ pc = "idle"
    /\ calls < MaxCalls
    /\ IF ~AiEnabled(env) THEN Refuse("describe_all", 503, "ai_disabled")
       ELSE IF ~OwnsProject(uid, project_id)
       THEN Refuse("describe_all", 404, "project_not_found")
       ELSE \E include_done \in BOOLEAN :
               IF DescriptionScope(project_id, include_done) = <<>>
               THEN Refuse("describe_all", 404, "no_tasks")
               ELSE EnterLoop("describe_all", uid, project_id, NoLocals.req,
                              DescriptionScope(project_id, include_done))

\* The loop body after the provider call: the assignments, updated.append
\* and the notification, outside any try block.
PersistDescriptionItem(t, fail, gen) ==
    IF ~gen.final.ok
    THEN Abort("generation")
    ELSE IF fail = "assign"
    THEN Abort("assign")
    ELSE Continue([tasks |-> [sess.tasks EXCEPT ![t] = ApplyDescription(@, gen)],
                   notifs |-> Append(sess.notifs,
                                     Notification("ai_description_generated",
                                                  loc.user_id, ProjectOf(t), t, 0))],
                  [loc EXCEPT !.updated_count = @ + 1,
                              !.responses = AppendResponse(@,
                                  DescriptionResponse(t, ApplyDescription(sess.tasks[t],
                                                                          gen))),
                              !.last = ItemRecord(t, gen, 0),
                              !.service = SharedService(@, gen)])

\* One turn of the loop, for task t.
DescriptionItem(t) ==
    \E up \in UpstreamsFor(env, TextUpstreams), fail \in {"none", "assign"} :
        PersistDescriptionItem(t, fail,
            TextWithFallback(
                ServiceGenerateDescription(loc.service, DescriptionPayload(sess.tasks, t), up),
                FallbackPlaceholderDescription(env, DescriptionPayload(sess.tasks, t), up),
                loc.service.provider))

GenerateDescriptionsBatchItem ==
    /\ pc = "describe_all"
    /\ loc.i <= Len(loc.items)
    /\ DescriptionItem(loc.items[loc.i])

GenerateDescriptionsBatchFinish(commit_fails) ==
    /\ pc = "describe_all"
    /\ loc.i > Len(loc.items)
    /\ IF commit_fails
       THEN Abort("commit")
       ELSE Done(sess.tasks,
                 notifs \o sess.notifs
                   \o <<Notification("ai_batch_done", loc.user_id, loc.project_id, 0,
                                     loc.updated_count)>>,
                 Answer("describe_all", 200, "none", loc.responses,
                        Len(loc.items), loc.failed, loc.last))

(***************************************************************************)
(* POST /tasks/ai/project-summary and POST /projects/{id}/ai/summary       *)
(***************************************************************************)
\* Both handlers after the provider call: the notification, the commit and
\* ProjectSummaryResponse(project_id, summary, method).
AnswerSummary(op, uid, project_id, commit_fails, gen) ==
    IF ~gen.final.ok
    THEN Refuse(op, 500, "generation")
    ELSE IF commit_fails
    THEN Done(tasks, notifs,
              Answer(op, 500, "commit", <<>>, 1, {}, ItemRecord(0, gen, 0)))
    ELSE Done(tasks,
              Append(notifs, Notification("ai_project_summary", uid, project_id, 0, 0)),
              Answer(op, 200, "none",
                     <<[project_id |-> project_id, method |-> gen.method,
                        producer |-> gen.final.producer]>>,
                     1, {}, ItemRecord(0, gen, 0)))

\* Both handlers up to the provider call.
SummaryHandler(op, uid, project_id) ==
    IF ~AiEnabled(env) THEN Refuse(op, 503, "ai_disabled")
    ELSE IF ~OwnsProject(uid, project_id) THEN Refuse(op, 404, "project_not_found")
    ELSE \E up \in UpstreamsFor(env, TextUpstreams), include_done \in BOOLEAN,
            commit_fails \in BOOLEAN :
            AnswerSummary(op, uid, project_id, commit_fails,
                SummarizeOrFallback(env, SummaryPayload(tasks, project_id, include_done),
                                    up))

\* task_router.create_project_summary
CreateProjectSummary(uid, project_id) ==
    /\ pc = "idle"
    /\ calls < MaxCalls
    /\ SummaryHandler("summary", uid, project_id)

\* project_router.create_project_summary
ProjectCreateProjectSummary(uid, project_id) ==
    /\ pc = "idle"
    /\ calls < MaxCalls
    /\ SummaryHandler("project_summary", uid, project_id)

(***************************************************************************)
(* The specification of the service and its handlers.                      *)
(***************************************************************************)
Next ==
    \/ \E uid \in Users, t \in TaskIds : EstimateEffort(uid, t)
    \/ \E uid \in Users, p \in Projects : EstimateEffortAllStart(uid, p)
    \/ EstimateEffortAllItem
    \/ \E commit_fails \in BOOLEAN : EstimateEffortAllFinish(commit_fails)
    \/ \E uid \in Users, t \in TaskIds : GenerateAiDescription(uid, t)
    \/ \E uid \in Users, p \in Projects : GenerateDescriptionsBatchStart(uid, p)
    \/ GenerateDescriptionsBatchItem
    \/ \E commit_fails \in BOOLEAN : GenerateDescriptionsBatchFinish(commit_fails)
    \/ \E uid \in Users, p \in Projects : CreateProjectSummary(uid, p)
    \/ \E uid \in Users, p \in Projects : ProjectCreateProjectSummary(uid, p)

Spec == Init /\ [][Next]_vars

(***************************************************************************)
(* The single-item calls when the fallback helper itself raises: the       *)
(* exception leaves the except branch it was raised in.                    *)
(***************************************************************************)
FallbackRaised == Err("Exception", 0)

EstimateEffortFallbackRaises(uid, t) ==
    /\ pc = "idle"
    /\ calls < MaxCalls
    /\ IF ~AiEnabled(env) THEN Refuse("estimate", 503, "ai_disabled")
       ELSE IF ~OwnsTask(uid, t) THEN Refuse("estimate", 404, "task_not_found")
       ELSE IF IsDone(tasks[t]) THEN Refuse("estimate", 409, "done")
       ELSE \E req \in HistoryRequests, up \in UpstreamsFor(env, Upstreams) :
               PersistEstimate(uid, t, "none",
                   EstimateWithFallback(
                       ServiceEstimateEffort(AIService(env),
                                             EstimatePayload(tasks, t, req), up),
                       FallbackRaised))

GenerateAiDescriptionFallbackRaises(uid, t) ==
    /\ pc = "idle"
    /\ calls < MaxCalls
    /\ IF ~AiEnabled(env) THEN Refuse("describe", 503, "ai_disabled")
       ELSE IF ~OwnsTask(uid, t) THEN Refuse("describe", 404, "task_not_found")
       ELSE \E up \in UpstreamsFor(env, TextUpstreams) :
               PersistDescription(uid, t, FALSE,
                   TextWithFallback(
                       ServiceGenerateDescription(AIService(env),
                                                  DescriptionPayload(tasks, t), up),
                       FallbackRaised, AIService(env).provider))

NextFallbackRaises ==
    \/ \E uid \in Users, t \in TaskIds : EstimateEffort(uid, t)
    \/ \E uid \in Users, t \in TaskIds : GenerateAiDescription(uid, t)
    \/ \E uid \in Users, t \in TaskIds : EstimateEffortFallbackRaises(uid, t)
    \/ \E uid \in Users, t \in TaskIds : GenerateAiDescriptionFallbackRaises(uid, t)

SpecFallbackRaises == Init /\ [][NextFallbackRaises]_vars

(***************************************************************************)
(* The specification of the estimate normalisation alone: any answer of    *)
(* the upstream, normalised once.                                          *)
(***************************************************************************)
RawStoryPoints ==
    {Raw("int", v) : v \in (0 - 3)..MaxRawSp}
    \cup {Raw("numstr", 8), Raw("float", 450), Raw("float", 0 - 250), Raw("text", 0),
          Raw("null", 0), Raw("missing", 0), Raw("nan", 0)}

RawConfidences ==
    {Raw("float", v) : v \in {0 - 30, 0, 42, 100, 170}}
    \cup {Raw("int", 1), Raw("int", 2), Raw("nan", 0), Raw("text", 0),
          Raw("null", 0), Raw("missing", 0)}

InitPure ==
    /\ env = [AI_ENABLED |-> " True ", AI_PROVIDER |-> " OpenAI ",
              OPENAI_API_KEY |-> "sk", sdk |-> "new"]
    /\ tasks = [t \in TaskIds |-> TaskRow("todo", InitialDescription(t))]
    /\ notifs = <<>>
    /\ pc = "normalize"
    /\ sess = Session(tasks)
    /\ loc = NoLocals
    /\ resp = NoResponse
    /\ calls = 0
    /\ fnIn \in [story_points : RawStoryPoints, confidence : RawConfidences]
    /\ fnOut = NoResult

NormalizeAnswer ==
    /\ pc = "normalize"
    /\ fnOut' = NormalizeEstimate(fnIn)
    /\ pc' = "normalized"
    /\ UNCHANGED <<env, tasks, notifs, sess, loc, resp, calls, fnIn>>

NextPure == NormalizeAnswer

SpecPure == InitPure /\ [][NextPure]_vars

(***************************************************************************)
(* Direct calls of one function.  No request is in progress; fnIn is the   *)
(* argument, and the call stores its result in fnOut.                      *)
(***************************************************************************)
Quiet(label) ==
    /\ env = [AI_ENABLED |-> " True ", AI_PROVIDER |-> " OpenAI ",
              OPENAI_API_KEY |-> "sk", sdk |-> "new"]
    /\ tasks = [t \in TaskIds |-> TaskRow("todo", InitialDescription(t))]
    /\ notifs = <<>>
    /\ pc = label
    /\ sess = Session(tasks)
    /\ loc = NoLocals
    /\ resp = NoResponse
    /\ calls = 0
    /\ fnOut = NoResult

Return(to, out) ==
    /\ fnOut' = out
    /\ pc' = to
    /\ UNCHANGED <<env, tasks, notifs, sess, loc, resp, calls, fnIn>>

(***************************************************************************)
(* The specification of the history window alone: a project of n tasks,    *)
(* created in the order of their ids, the current task and the limit.      *)
(***************************************************************************)
MaxHistoryItems == 5
MaxHistoryLimit == 6

\* The rows of a project of n tasks.
ProjectRows(n) == [t \in 1..n |-> TaskRow("todo", InitialDescription(t))]

HistoryInputs ==
    {[n |-> n, current |-> c, limit |-> l] :
        n \in 1..MaxHistoryItems, c \in 1..MaxHistoryItems,
        l \in (0 - 1)..MaxHistoryLimit}

InitHistory ==
    /\ Quiet("history")
    /\ fnIn \in {x \in HistoryInputs : x.current <= x.n}

\* The window, the keys of the prompt built with it, and the estimate.
HistoryAnswer(payload) ==
    [history |-> payload.history,
     prompt |-> PromptKeys(payload),
     estimate |-> ServiceEstimateEffort(PlaceholderService(env), payload,
                                        Reply("empty", NoData))]

BuildHistory ==
    /\ pc = "history"
    /\ Return("history_built",
              HistoryAnswer(EstimatePayload(ProjectRows(fnIn.n), fnIn.current,
                                            [include_history |-> TRUE,
                                             max_history_tasks |-> fnIn.limit])))

NextHistory == BuildHistory

SpecHistory == InitHistory /\ [][NextHistory]_vars

(***************************************************************************)
(* The specification of the truncation alone: texts made of two runs of    *)
(* letters with blanks before, between and after, and every max_chars up   *)
(* to a bound.                                                             *)
(***************************************************************************)
MaxRun == 24
MaxTruncChars == 24

Repeat(c, n) == [i \in 1..n |-> c]

TruncateTexts ==
    {Repeat(" ", l) \o Repeat("a", k) \o Repeat(" ", j) \o Repeat("b", m)
        \o Repeat("\n", r) :
        l \in {0, 1}, k \in 0..MaxRun, j \in {0, 2}, m \in {0, 3}, r \in {0, 1}}

InitTruncate ==
    /\ Quiet("truncate")
    /\ fnIn \in [text : TruncateTexts, max_chars : 0..MaxTruncChars]

\* The output, and the output of truncating it again.
TruncateTwice(once, max_chars) ==
    [once |-> once, twice |-> Truncate(once, max_chars)]

TruncateText ==
    /\ pc = "truncate"
    /\ Return("truncated", TruncateTwice(Truncate(fnIn.text, fnIn.max_chars),
                                         fnIn.max_chars))

NextTruncate == TruncateText

SpecTruncate == InitTruncate /\ [][NextTruncate]_vars

(***************************************************************************)
(* _json_from_text on its own: the text is the input, the actions apply    *)
(* the parser.                                                             *)
(***************************************************************************)
MaxWrap == 2

SeqsUpTo(S, n) == UNION {[1..k -> S] : k \in 0..n}

WrapLexemes == {Fence, "json", "JSON", "\n", Word, "{", "}"}

\* What stands before the body, and what stands after it.
Leaders == SeqsUpTo(WrapLexemes, MaxWrap)

Trailers ==
    {<<>>, <<Fence>>, <<"\n", Fence>>, <<"\n">>, <<Word>>, <<"}">>, <<"{">>,
     <<"{", "}">>, <<Fence, Word>>}

JsonTexts ==
    {Wrapped(pre, "json", d, post) : pre \in Leaders, d \in ReplyData, post \in Trailers}
    \cup {Wrapped(pre, f, NoData, post) :
             pre \in Leaders, f \in {"list", "garbage", "empty"}, post \in Trailers}

InitJson ==
    /\ Quiet("json")
    /\ fnIn \in JsonTexts

ParseJson ==
    /\ pc = "json"
    /\ Return("parsed", JsonFromText(fnIn))

NextJson == ParseJson

SpecJson == InitJson /\ [][NextJson]_vars

(***************************************************************************)
(* _generate_placeholder_description on its own: the payload is the input. *)
(***************************************************************************)
\* A field is absent, the empty string, a line of text, or a line of text
\* with the word "None" in it.
MentionsNone == [Text({}, 1) EXCEPT !.none_word = TRUE]

AnyField == {NoneText, Text({}, 0), Text({}, 1), MentionsNone}

SetField == {NoneText, Text({}, 1)}

DescriptionInputs ==
    [title : AnyField, description : AnyField, project_name : SetField,
     tech_stack : SetField, priority : AnyField, complexity : SetField,
     assignee : SetField, tags : SetField, infrastructure : SetField]

InitDescription ==
    /\ Quiet("describe")
    /\ fnIn \in DescriptionInputs

DescriptionAnswer(payload) ==
    [result |-> GeneratePlaceholderDescription(payload), sections |-> Sections(payload)]

DescribePlaceholder ==
    /\ pc = "describe"
    /\ Return("described", DescriptionAnswer(fnIn))

NextDescription == DescribePlaceholder

SpecDescription == InitDescription /\ [][NextDescription]_vars

(***************************************************************************)
(* _estimate_placeholder on its own: the payload is the input.             *)
(***************************************************************************)
TitleKeywords == SUBSET {"auth", "jwt", "api", "docker"}

DescriptionKeywords == SUBSET {"auth", "login"}

HistoryLengths ==
    {0, 1, HistoryLineThreshold - 1, HistoryLineThreshold, HistoryLineThreshold + 1,
     3 * HistoryLineThreshold}

PlaceholderInputs ==
    [title : {NoneText} \cup {Text(kw, 1) : kw \in TitleKeywords},
     description : {NoneText} \cup {Text(kw, 2) : kw \in DescriptionKeywords},
     history : {NoHistory} \cup {Text({}, n) : n \in HistoryLengths}]

InitPlaceholder ==
    /\ Quiet("estimate")
    /\ fnIn \in PlaceholderInputs

EstimateByPlaceholder ==
    /\ pc = "estimate"
    /\ Return("estimated", EstimatePlaceholder(fnIn))

NextPlaceholder == EstimateByPlaceholder

SpecPlaceholder == InitPlaceholder /\ [][NextPlaceholder]_vars

(***************************************************************************)
(* _openai_chat on its own: the service and the upstream outcome are the   *)
(* input.  The function is called only where _should_use_openai holds.     *)
(***************************************************************************)
ChatEnvironments == {e \in Environments : ShouldUseOpenai(AIService(e))}

ChatUpstreams ==
    {RaisesOf(timeout, typed) : timeout \in BOOLEAN, typed \in BOOLEAN}
    \cup {Wrapped(pre, "json", d, post) :
             pre \in {<<>>, <<"\n">>, <<Fence, "json">>}, d \in ReplyData,
             post \in {<<>>, <<"\n">>}}
    \cup {Wrapped(pre, f, NoData, post) :
             pre \in {<<>>, <<"\n">>, <<Fence, "json">>},
             f \in {"list", "garbage", "empty"}, post \in {<<>>, <<"\n">>}}

InitChat ==
    /\ Quiet("chat")
    /\ fnIn \in [env : ChatEnvironments, up : ChatUpstreams]

Chat ==
    /\ pc = "chat"
    /\ Return("chatted", OpenaiChat(AIService(fnIn.env), fnIn.up))

NextChat == Chat

SpecChat == InitChat /\ [][NextChat]_vars

(***************************************************************************)
(* The field coercion of _estimate_openai with the rationale: the parsed   *)
(* mapping is the input.                                                   *)
(***************************************************************************)
RawRationales ==
    {Raw("missing", <<>>), Raw("null", <<>>), Raw("zero", <<>>), Raw("str", <<>>),
     Raw("str", <<" ", "\n">>), Raw("str", <<"o", "k">>),
     Raw("str", <<" ", "o", "k", "\n">>)}

InitCoerce ==
    /\ Quiet("coerce")
    /\ fnIn \in [story_points : RawStoryPoints, confidence : RawConfidences,
                 rationale : RawRationales]

CoerceFields ==
    /\ pc = "coerce"
    /\ Return("coerced", EstimateWithRationale(fnIn))

NextCoerce == CoerceFields

SpecCoerce == InitCoerce /\ [][NextCoerce]_vars

(***************************************************************************)
(* The task requests next to the AI requests: GET /tasks/{task_id} and     *)
(* PATCH /tasks/{task_id}/status.                                          *)
(***************************************************************************)
\* (status or "").lower()
LowerStatus(status) == IF status = "DONE" THEN "done" ELSE status

\* The statuses a status request sets.
NewStatuses == {"done", "in_progress"}

\* TaskRead, as far as the rows are modelled.
TaskRead(t, row) == [task_id |-> t, status |-> row.status, source |-> row.source]

\* get_task
GetTask(uid, t) ==
    /\ pc = "idle"
    /\ calls < MaxCalls
    /\ IF ~OwnsTask(uid, t) THEN Refuse("get_task", 404, "task_not_found")
       ELSE Done(tasks, notifs,
                 Answer("get_task", 200, "none", <<TaskRead(t, tasks[t])>>, 1, {}, NoItem))

\* update_status after the ownership check.
StoreStatus(uid, t, status, commit_fails) ==
    IF commit_fails
    THEN Done(tasks, notifs, Answer("update_status", 500, "commit", <<>>, 1, {t}, NoItem))
    ELSE Done([tasks EXCEPT ![t].status = status],
              IF LowerStatus(tasks[t].status) # LowerStatus(status)
              THEN Append(notifs,
                          Notification("task_status_changed", uid, ProjectOf(t), t, 0))
              ELSE notifs,
              Answer("update_status", 200, "none",
                     <<TaskRead(t, [tasks[t] EXCEPT !.status = status])>>, 1, {}, NoItem))

\* update_status
UpdateStatus(uid, t) ==
    /\ pc = "idle"
    /\ calls < MaxCalls
    /\ IF ~OwnsTask(uid, t) THEN Refuse("update_status", 404, "task_not_found")
       ELSE \E status \in NewStatuses, commit_fails \in BOOLEAN :
               StoreStatus(uid, t, status, commit_fails)

NextRequests ==
    \/ \E uid \in Users, t \in TaskIds : GetTask(uid, t)
    \/ \E uid \in Users, t \in TaskIds : UpdateStatus(uid, t)
    \/ \E uid \in Users, t \in TaskIds : EstimateEffort(uid, t)
    \/ \E uid \in Users, p \in Projects : EstimateEffortAllStart(uid, p)
    \/ EstimateEffortAllItem
    \/ \E commit_fails \in BOOLEAN : EstimateEffortAllFinish(commit_fails)
    \/ \E uid \in Users, t \in TaskIds : GenerateAiDescription(uid, t)
    \/ \E uid \in Users, p \in Projects : GenerateDescriptionsBatchStart(uid, p)
    \/ GenerateDescriptionsBatchItem
    \/ \E commit_fails \in BOOLEAN : GenerateDescriptionsBatchFinish(commit_fails)
    \/ \E uid \in Users, p \in Projects : CreateProjectSummary(uid, p)
    \/ \E uid \in Users, p \in Projects : ProjectCreateProjectSummary(uid, p)

SpecRequests == Init /\ [][NextRequests]_vars

(***************************************************************************)
(* Properties.                                                             *)
(***************************************************************************)
EstimateOps == {"estimate", "estimate_all"}

BatchOps == {"estimate_all", "describe_all"}

\* The record of the estimate handled last: by the request that finished
\* last, and by the batch in progress.
LastEstimates ==
    (IF resp.op \in EstimateOps THEN {resp.last} ELSE {})
    \cup (IF loc.op = "estimate_all" THEN {loc.last} ELSE {})

\* The records of the item handled last, whatever the operation.
LastItems == {resp.last, loc.last}

\* The task ids of a list of results.
TaskIdsOf(results) == [k \in 1..Len(results) |-> results[k].task_id]

\* The configuration in which the upstream may be used: the provider name
\* is the upstream's, a credential is set, a client library is installed.
UpstreamConfigured ==
    /\ NormalizeProvider(env.AI_PROVIDER) = "openai"
    /\ env.OPENAI_API_KEY # ""
    /\ env.sdk # "none"

\* C1: in the single and the batch estimate, whatever way the provider
\* fails (timeout, invalid response, provider failure, any other
\* exception), the item's result is the placeholder's, with story points
\* of the scale, and the failure never ends the request.
C1_ProviderFailureFallsBack ==
    /\ resp.op \in EstimateOps => resp.cause # "generation"
    /\ \A it \in LastEstimates :
          it.first_err # "none" =>
              /\ it.method = "placeholder"
              /\ it.producer = "placeholder"
              /\ it.story_points \in AllowedSet

C1_Witness ==
    /\ resp.op = "estimate_all"
    /\ resp.status = 200
    /\ resp.last.first_err = "Timeout"
    /\ Len(resp.results) = NTasks
    /\ resp.results[NTasks].method = "placeholder"

\* C2: the method a description, estimate or summary call reports, and
\* the source stored on the task, name the generator that produced the
\* result.
C2_MethodNamesGenerator ==
    /\ resp.op \in {"summary", "project_summary"} =>
          \A k \in 1..Len(resp.results) :
              resp.results[k].method = resp.results[k].producer
    /\ resp.op \in {"describe", "describe_all"} =>
          \A k \in 1..Len(resp.results) :
              resp.results[k].method = DescriptionSource(resp.results[k].producer)
    /\ resp.op = "estimate" /\ resp.status = 200 =>
          resp.results[1].method = resp.last.producer
    /\ \A t \in TaskIds :
          tasks[t].described_by # "none" /\ ~tasks[t].has_estimate =>
              tasks[t].source = DescriptionSource(tasks[t].described_by)

\* C3: every story points value returned to a caller, and every one
\* stored on a task, is a member of the scale.
C3_StoryPointsInScale ==
    /\ \A t \in TaskIds :
          /\ tasks[t].has_estimate => tasks[t].estimated_story_points \in AllowedSet
          /\ sess.tasks[t].has_estimate =>
                sess.tasks[t].estimated_story_points \in AllowedSet
    /\ resp.op \in EstimateOps =>
          \A k \in 1..Len(resp.results) : resp.results[k].story_points \in AllowedSet
    /\ loc.op = "estimate_all" =>
          \A k \in 1..Len(loc.responses) : loc.responses[k].story_points \in AllowedSet

C3_Witness ==
    /\ calls = MaxCalls
    /\ resp.op = "estimate"
    /\ resp.status = 200
    /\ resp.last.producer = "openai"
    /\ resp.results[1].story_points = 21
    /\ \E t \in TaskIds : tasks[t].has_estimate /\ t # resp.last.task_id

\* C4: the snap of an integer x of the provider is x when x is in the
\* scale, else the member nearest to x, the lower one on a tie; 4 gives
\* 3, 25 gives 21, and every x <= 0 gives 1.
C4_SnapNearestLowerOnTie ==
    pc = "normalized" /\ fnIn.story_points.kind = "int" =>
        /\ fnOut.story_points \in AllowedSet
        /\ fnIn.story_points.v \in AllowedSet => fnOut.story_points = fnIn.story_points.v
        /\ \A a \in AllowedSet :
              /\ Abs(fnOut.story_points - fnIn.story_points.v) <= Abs(a - fnIn.story_points.v)
              /\ Abs(fnOut.story_points - fnIn.story_points.v) = Abs(a - fnIn.story_points.v)
                    => fnOut.story_points <= a
        /\ fnIn.story_points.v = 4 => fnOut.story_points = 3
        /\ fnIn.story_points.v = 25 => fnOut.story_points = 21
        /\ fnIn.story_points.v <= 0 => fnOut.story_points = 1

C4_Witness ==
    /\ pc = "normalized"
    /\ fnIn.story_points = Raw("int", 4)
    /\ fnOut.story_points = 3

\* C5: the confidence of an estimate lies in [0, 1]; a provider's value
\* below 0 becomes 0.0, one above 1 becomes 1.0, one inside is unchanged.
C5_ConfidenceClamped ==
    pc = "normalized" =>
        /\ fnOut.confidence.k = "num"
        /\ fnOut.confidence.v >= 0
        /\ fnOut.confidence.v <= 100
        /\ fnIn.confidence.kind = "float" =>
              /\ fnIn.confidence.v < 0 => fnOut.confidence = Num(0)
              /\ fnIn.confidence.v > 100 => fnOut.confidence = Num(100)
              /\ fnIn.confidence.v >= 0 /\ fnIn.confidence.v <= 100
                    => fnOut.confidence = Num(fnIn.confidence.v)

C5_Witness ==
    /\ pc = "normalized"
    /\ fnIn.confidence = Raw("float", 0 - 30)
    /\ fnOut.confidence = Num(0)

\* C6: a batch estimate in which the persistence of some items is made to
\* fail does not raise, and returns the results of the other items (the
\* tasks that are not done), in input order.
C6_BatchReturnsTheOthers ==
    resp.op = "estimate_all" /\ resp.failed # {}
    /\ resp.cause \notin {"history", "commit"} =>
        /\ resp.status = 200
        /\ TaskIdsOf(resp.results)
             = SelectSeq(ProjectTasks(1),
                         LAMBDA t : ~IsDone(tasks[t]) /\ t \notin resp.failed)

C6_Witness ==
    /\ resp.op = "estimate_all"
    /\ resp.status = 200
    /\ resp.failed = {2}
    /\ TaskIdsOf(resp.results) = <<1, 3>>

\* C7: when the batch estimate answers, the estimate and the notification
\* of every item it returns are stored, whatever happened to another item.
C7_ReturnedItemsArePersisted ==
    resp.op = "estimate_all" /\ resp.status = 200 =>
        \A k \in 1..Len(resp.results) :
            /\ tasks[resp.results[k].task_id].has_estimate
            /\ EstimateResponse(resp.results[k].task_id,
                                tasks[resp.results[k].task_id]) = resp.results[k]
            /\ \E j \in 1..Len(notifs) :
                  /\ notifs[j].type = "ai_estimate_done"
                  /\ notifs[j].task_id = resp.results[k].task_id

\* C8: in both batch operations no failure met while handling one item
\* (its history, the provider, the fallback, the assignment of its
\* result) ends the batch: the item is skipped and the loop goes on.
C8_ItemFailureIsCaught ==
    resp.op \in BatchOps => resp.cause \notin {"history", "generation", "assign"}

\* C9: a batch that ends with no succeeded item reports an error and
\* does not answer 200 with an empty list.
C9_EmptyBatchIsAnError ==
    resp.op \in BatchOps /\ resp.status = 200 => resp.results # <<>>

\* C10: an upstream request is made only when the provider name is the
\* upstream's, a credential is set and a client library is installed; in
\* every other configuration none is made and the placeholder produces
\* the result.
C10_UpstreamOnlyWhenConfigured ==
    \A it \in LastItems :
        /\ it.requests > 0 => UpstreamConfigured
        /\ ~UpstreamConfigured =>
              it.requests = 0 /\ it.producer \in {"placeholder", "none"}

C10_Witness ==
    /\ resp.op = "describe"
    /\ resp.status = 200
    /\ resp.last.requests = 1
    /\ resp.last.producer = "openai"
    /\ UpstreamConfigured

\* The tasks of the window of a direct call.
WindowIds == fnOut.history.ids

\* C11: the history window holds only tasks created before the current
\* one, never the current one and never a later one.
C11_WindowBeforeCurrent ==
    pc = "history_built" =>
        \A k \in 1..Len(WindowIds) : WindowIds[k] < fnIn.current

C15_AbsentHistory ==
    pc = "history_built" =>
        /\ fnOut.history.nil <=> (fnIn.limit <= 0 \/ fnIn.n = 1)
        /\ ~fnOut.history.nil => fnOut.history.lines > 0
        /\ fnOut.history.nil <=> "history" \notin fnOut.prompt
        /\ fnOut.estimate.ok
        /\ fnOut.estimate.out.story_points \in AllowedSet

C15_Witness ==
    /\ pc = "history_built"
    /\ fnIn.limit > 0
    /\ fnIn.n = 1
    /\ fnOut.history.nil
    /\ "history" \notin fnOut.prompt
    /\ fnOut.estimate.ok

\* Whether a string ends with the truncation marker.
EndsWithMarker(s) ==
    Len(s) >= Len(Marker) /\ SubSeq(s, Len(s) - Len(Marker) + 1, Len(s)) = Marker

\* C12: truncating at N the output of a truncation at N gives that
\* output again, for every text and every N.
C12_TruncateIdempotent ==
    pc = "truncated" => fnOut.twice = fnOut.once

\* C16: the output of a truncation is at most max_chars long; it ends
\* with the marker whenever it is not the whole stripped input, and an
\* input of at most max_chars is returned without the marker.
C16_TruncateBounded ==
    pc = "truncated" =>
        /\ Len(fnOut.once) <= fnIn.max_chars
        /\ fnOut.once # Strip(fnIn.text) => EndsWithMarker(fnOut.once)
        /\ Len(fnIn.text) <= fnIn.max_chars => fnOut.once = Strip(fnIn.text)

\* An opening fence: the fence, an optional language tag, white space.
OpensFence(pre) ==
    /\ pre # <<>>
    /\ pre[1] = Fence
    /\ \A i \in 2..Len(pre) : IsSpace(pre[i]) \/ (i = 2 /\ pre[i] \in {"json", "JSON"})

\* A closing fence: white space, the fence.
ClosesFence(post) ==
    /\ post # <<>>
    /\ post[Len(post)] = Fence
    /\ \A i \in 1..(Len(post) - 1) : IsSpace(post[i])

\* Prose: words and white space, at least one word, no brace.
Prose(pre) ==
    /\ \A i \in DOMAIN pre : pre[i] = Word \/ IsSpace(pre[i])
    /\ \E i \in DOMAIN pre : pre[i] = Word

NoBrace(w) == \A i \in DOMAIN w : w[i] \notin {"{", "}"}

\* C13: a JSON value inside a code fence, with or without the language tag,
\* parses to what the same value parses to without the fence; prose followed
\* by a JSON object parses to that object alone; a text with no JSON value and
\* no brace in it fails, and every failure is the InvalidResponse error.
C13_FencedParsesAsBare ==
    pc = "parsed" =>
        /\ (OpensFence(fnIn.pre) /\ ClosesFence(fnIn.post))
              => fnOut = JsonFromText(Reply(fnIn.form, fnIn.data))
        /\ (fnIn.form = "json" /\ Prose(fnIn.pre) /\ fnIn.post = <<>>)
              => fnOut = Ok([object |-> TRUE, fields |-> fnIn.data], 0, "openai")
        /\ (fnIn.form \in {"garbage", "empty"} /\ NoBrace(fnIn.pre) /\ NoBrace(fnIn.post))
              => ~fnOut.ok
        /\ ~fnOut.ok => fnOut.err = "InvalidResponse"

C13_Witness ==
    /\ pc = "parsed"
    /\ fnIn.pre = <<Fence, "json">>
    /\ fnIn.post = <<"\n", Fence>>
    /\ fnIn.form = "json"
    /\ fnOut.ok
    /\ fnOut.out.fields = fnIn.data

\* The fields of the context that are present, in the order of the document;
\* an extra that is the empty string counts as absent.
PresentFields ==
    SelectSeq(LabelledFields, LAMBDA k : ~fnIn[k].nil)
    \o SelectSeq(ExtraFields, LAMBDA k : ~fnIn[k].nil /\ fnIn[k].lines > 0)

\* C17: the placeholder description fails, with the InvalidResponse error,
\* exactly when every field of the context is absent; with a field present
\* it returns a document that is not empty.
C17_FailsOnlyWhenAllAbsent ==
    pc = "described" =>
        /\ ~fnOut.result.ok <=> PresentFields = <<>>
        /\ ~fnOut.result.ok => fnOut.result.err = "InvalidResponse"
        /\ fnOut.result.ok => fnOut.result.out.lines > 0

\* C18: the placeholder description has one section for each present field
\* of the context, whatever its text, then the two static sections; an
\* absent field has no section.
C18_SectionPerPresentField ==
    pc = "described" =>
        fnOut.sections = PresentFields \o <<"acceptance_criteria", "implementation_notes">>

\* The distinct keywords of the payload's title and description.
HitsOf(payload) == Cardinality(payload.title.kw \cup payload.description.kw)

\* The score the claim gives before the snap.
ScoreOf(hits, hist_len) ==
    (CASE hits = 0 -> 2 [] hits = 1 -> 3 [] hits = 2 -> 5 [] OTHER -> 8)
    + (IF hist_len > 80 THEN 2 ELSE 0)

\* C19: the placeholder estimate is the Fibonacci value nearest to the base
\* score 2, 3, 5 or 8 (for 0, 1, 2, or 3 and more distinct keywords), raised
\* by 2 and capped at 13 when the history has more than 80 lines; its
\* confidence is 0.55 and its method "placeholder"; it depends on nothing
\* but the keywords found and the length of the history.
C19_PlaceholderEstimate ==
    pc = "estimated" =>
        /\ fnOut.story_points \in AllowedSet
        /\ \A a \in AllowedSet :
              Abs(fnOut.story_points - Min2(13, ScoreOf(HitsOf(fnIn), fnIn.history.lines)))
                 <= Abs(a - Min2(13, ScoreOf(HitsOf(fnIn), fnIn.history.lines)))
        /\ fnIn.history.lines <= 80
              => fnOut.story_points = ScoreOf(HitsOf(fnIn), 0)
        /\ fnOut.confidence = Num(55)
        /\ fnOut.method = "placeholder"

C19_Witness ==
    /\ pc = "estimated"
    /\ fnIn.history.lines > 80
    /\ HitsOf(fnIn) = 2
    /\ fnOut.story_points = 8

\* The text of the reply has a character that is not white space.
HasText(up) == \E i \in DOMAIN Lexemes(up) : ~IsSpace(Lexemes(up)[i])

\* What every call of the provider client does, whatever the exception.
ChatEndsOnce ==
    /\ fnOut.requests = 1
    /\ (fnIn.up.kind = "reply" /\ HasText(fnIn.up)) => (fnOut.ok /\ fnOut.out = fnIn.up)
    /\ (fnIn.up.kind = "reply" /\ ~HasText(fnIn.up))
          => (~fnOut.ok /\ fnOut.err = "InvalidResponse")
    /\ fnIn.up.kind = "raise" => (~fnOut.ok /\ fnOut.err \in {"Timeout", "AIServiceError"})
    /\ fnOut.ok => HasText(fnOut.out)

\* C20 as stated: one call makes one upstream request and ends with a text
\* that is not empty, with InvalidResponse for an empty text, with Timeout
\* for an exception whose message contains "timeout", and with the generic
\* provider error for any other exception.
C20_TimeoutByMessageOnly ==
    pc = "chatted" =>
        /\ ChatEndsOnce
        /\ fnIn.up.kind = "raise" => (fnOut.err = "Timeout" <=> fnIn.up.timeout)

\* C20, amended: as above, but on the old SDK an exception of the SDK's
\* Timeout type also ends with Timeout, whatever its message.
C20_TimeoutByMessageOrType ==
    pc = "chatted" =>
        /\ ChatEndsOnce
        /\ fnIn.up.kind = "raise"
              => (fnOut.err = "Timeout"
                    <=> (fnIn.up.timeout \/ (fnIn.env.sdk = "old" /\ fnIn.up.typed)))

C20_Witness ==
    /\ pc = "chatted"
    /\ fnIn.env.sdk = "old"
    /\ fnIn.up.kind = "raise"
    /\ fnIn.up.typed
    /\ ~fnIn.up.timeout
    /\ fnOut.err = "Timeout"
    /\ fnOut.requests = 1

\* C21: after the parse, story_points that is missing, null or not a number
\* becomes 3, confidence that is missing, null or not a number becomes 0.6,
\* a rationale that is missing, null or blank becomes the default sentence,
\* and the estimate is returned.
C21_DefaultsOnCoercionFailure ==
    pc = "coerced" =>
        /\ fnIn.story_points.kind \in {"missing", "null", "text", "nan"}
              => fnOut.story_points = 3
        /\ fnIn.confidence.kind \in {"missing", "null", "text"}
              => fnOut.confidence = Num(60)
        /\ (fnIn.rationale.kind # "str" \/ \A i \in DOMAIN fnIn.rationale.v :
                                              fnIn.rationale.v[i] \in {" ", "\n"})
              => fnOut.rationale = DefaultRationale
        /\ fnIn.rationale = Raw("str", <<" ", "o", "k", "\n">>)
              => fnOut.rationale = <<"o", "k">>
        /\ fnOut.method = "openai"
        /\ fnOut.story_points \in AllowedSet

C21_Witness ==
    /\ pc = "coerced"
    /\ fnIn.story_points.kind = "text"
    /\ fnIn.confidence.kind = "null"
    /\ fnIn.rationale = Raw("str", <<" ", "\n">>)
    /\ fnOut.story_points = 3
    /\ fnOut.confidence = Num(60)
    /\ fnOut.rationale = DefaultRationale

C23_FallbackFailurePropagates ==
    [][(/\ calls' = calls + 1
        /\ resp'.op \in {"estimate", "describe"}
        /\ resp'.last.first_err # "none"
        /\ resp'.last.producer = "none") =>
          /\ resp'.status = 500
          /\ resp'.cause = "generation"
          /\ resp'.results = <<>>
          /\ resp'.last.requests <= 1
          /\ tasks' = tasks
          /\ notifs' = notifs]_vars

C23_Witness ==
    /\ resp.op = "describe"
    /\ resp.status = 500
    /\ resp.cause = "generation"
    /\ resp.last.first_err = "Timeout"
    /\ resp.last.producer = "none"
    /\ resp.last.requests = 1
    /\ notifs = <<>>

\* C24: no call changes the environment a later call reads, and inside a
\* batch the service made before the loop stays as it was constructed
\* whatever happened to an earlier item: every item that reaches the
\* generation makes its one upstream request when the upstream is
\* configured, and a fallback estimate is the placeholder's estimate of the
\* payload of that same item.
C24_ServiceStateNotRetained ==
    /\ [][env' = env]_vars
    /\ [](pc \in BatchOps =>
            /\ loc.service = AIService(env)
            /\ (loc.last.task_id # 0 /\ UpstreamConfigured) => loc.last.requests = 1
            /\ (pc = "estimate_all" /\ loc.last.first_err # "none") =>
                  loc.last.story_points
                    = EstimatePlaceholder(EstimatePayload(sess.tasks, loc.last.task_id,
                                                          loc.req)).story_points)

C24_Witness ==
    /\ pc = "estimate_all"
    /\ UpstreamConfigured
    /\ Len(loc.responses) = 2
    /\ loc.responses[1].method = "placeholder"
    /\ loc.responses[2].method = "openai"
    /\ loc.last.task_id = loc.responses[2].task_id
    /\ loc.last.requests = 1

\* C25: a batch call that entered its loop, and whose final commit did not
\* raise, adds exactly one ai_batch_done notification, and adds it after
\* every per-item notification of the call, also when items failed.
C25_OneBatchNotification ==
    [][(pc \in BatchOps /\ pc' = "idle" /\ resp'.cause # "commit") =>
          /\ Len(notifs') > Len(notifs)
          /\ notifs'[Len(notifs')].type = "ai_batch_done"
          /\ \A k \in (Len(notifs) + 1)..(Len(notifs') - 1) :
                notifs'[k].type # "ai_batch_done"]_vars

\* C26: the placeholder estimate is always 2, 3, 5 or 8 (never 1, 13 or
\* 21); a payload with no more keyword hits and no longer history never
\* gets a higher estimate; from three hits on the estimate is 8 whether or
\* not the history bump applies.
C26_PlaceholderRange ==
    pc = "estimated" =>
        /\ fnOut.story_points \in {2, 3, 5, 8}
        /\ \A q \in PlaceholderInputs :
              (HitsOf(q) <= HitsOf(fnIn) /\ q.history.lines <= fnIn.history.lines)
                 => EstimatePlaceholder(q).story_points <= fnOut.story_points
        /\ HitsOf(fnIn) >= 3 => fnOut.story_points = 8

C26_Witness ==
    /\ pc = "estimated"
    /\ HitsOf(fnIn) >= 4
    /\ fnIn.history.lines > HistoryLineThreshold
    /\ fnOut.story_points = 8

\* A request that returned nothing and stored nothing.
NothingReturnedOrStored ==
    /\ resp'.results = <<>>
    /\ tasks' = tasks
    /\ notifs' = notifs

\* A request of user uid for task t, of whatever kind.
TaskRequest(uid, t) ==
    \/ GetTask(uid, t)
    \/ UpdateStatus(uid, t)
    \/ EstimateEffort(uid, t)
    \/ GenerateAiDescription(uid, t)

\* A request of user uid for project p, of whatever kind.
ProjectRequest(uid, p) ==
    \/ EstimateEffortAllStart(uid, p)
    \/ GenerateDescriptionsBatchStart(uid, p)
    \/ CreateProjectSummary(uid, p)
    \/ ProjectCreateProjectSummary(uid, p)

\* The task, or the project, belongs to another user.
ForeignTask(uid, t) == ProjectOwner(ProjectOf(t)) # uid

ForeignProject(uid, p) == ProjectOwner(p) # uid

\* C27, as stated: a request for a task or a project of another user ends
\* with 404, returns nothing and leaves tasks and notifications unchanged.
C27_ForeignRequestEnds404 ==
    [][\A uid \in Users :
          /\ \A t \in TaskIds :
                (ForeignTask(uid, t) /\ TaskRequest(uid, t))
                   => (resp'.status = 404 /\ NothingReturnedOrStored)
          /\ \A p \in Projects :
                (ForeignProject(uid, p) /\ ProjectRequest(uid, p))
                   => (resp'.status = 404 /\ NothingReturnedOrStored)]_vars

\* C27, amended: a request for a task or a project of another user returns
\* nothing and leaves tasks and notifications unchanged; it ends with 404,
\* or with 503 when it is an AI request and the AI flag is not "true"; and
\* a batch in progress works on a project of its own user.
C27_ForeignRequestRefused ==
    [][/\ \A uid \in Users :
            /\ \A t \in TaskIds :
                  (ForeignTask(uid, t) /\ TaskRequest(uid, t))
                     => /\ NothingReturnedOrStored
                        /\ \/ resp'.status = 404
                           \/ /\ resp'.status = 503
                              /\ ~AiEnabled(env)
                              /\ resp'.op \in {"estimate", "describe"}
            /\ \A p \in Projects :
                  (ForeignProject(uid, p) /\ ProjectRequest(uid, p))
                     => /\ NothingReturnedOrStored
                        /\ \/ resp'.status = 404
                           \/ resp'.status = 503 /\ ~AiEnabled(env)
       /\ pc' \in BatchOps => ~ForeignProject(loc'.user_id, loc'.project_id)]_vars

C27_Witness ==
    /\ resp.op = "estimate"
    /\ resp.status = 404
    /\ resp.cause = "task_not_found"
    /\ AiEnabled(env)
    /\ \E t \in TaskIds : tasks[t].has_estimate

\* The status of task t is done, in whatever case.
StoredDone(rows, t) == LowerStatus(rows[t].status) = "done"

\* No generator ran and nothing was returned or stored.
NothingGenerated ==
    /\ resp'.last = NoItem
    /\ NothingReturnedOrStored

\* The batch estimate: a done task is passed over by its turn of the loop,
\* and when the batch ends it is in no result and its row is as before.
BatchSkipsDone ==
    /\ (EstimateEffortAllItem /\ StoredDone(sess.tasks, loc.items[loc.i]))
          => /\ pc' = "estimate_all"
             /\ sess' = sess
             /\ loc'.responses = loc.responses
             /\ loc'.last = loc.last
    /\ (pc = "estimate_all" /\ pc' = "idle")
          => \A t \in TaskIds :
                StoredDone(tasks, t)
                   => /\ tasks'[t] = tasks[t]
                      /\ \A k \in 1..Len(resp'.results) : resp'.results[k].task_id # t

\* C28, as stated: every single estimate of a done task answers 409, runs
\* no generator and changes nothing, and the batch estimate skips the task.
C28_DoneAnswers409 ==
    [][/\ \A uid \in Users, t \in TaskIds :
             (StoredDone(tasks, t) /\ EstimateEffort(uid, t))
                => (resp'.status = 409 /\ NothingGenerated)
       /\ BatchSkipsDone]_vars

\* C28, amended: a single estimate of a done task runs no generator and
\* changes nothing; it answers 409 when the AI flag is "true" and the caller
\* owns the task, and 503 or 404 otherwise; the batch estimate skips the task.
C28_DoneNeverEstimated ==
    [][/\ \A uid \in Users, t \in TaskIds :
             (StoredDone(tasks, t) /\ EstimateEffort(uid, t))
                => /\ NothingGenerated
                   /\ IF ~AiEnabled(env) THEN resp'.status = 503
                      ELSE IF ForeignTask(uid, t) THEN resp'.status = 404
                      ELSE resp'.status = 409
       /\ BatchSkipsDone]_vars

C28_Witness ==
    /\ resp.op = "estimate"
    /\ resp.status = 409
    /\ \E j \in 1..Len(notifs) : notifs[j].type = "ai_batch_done" /\ notifs[j].n = 2
    /\ \E t \in TaskIds : StoredDone(tasks, t) /\ ~tasks[t].has_estimate

\* C29: while the AI flag is not "true", every AI request (single and batch
\* description, single and batch estimate, both project summaries) has
\* ended with 503 with no generator run, no batch has entered its loop, no
\* task field is changed and no notification exists.
C29_DisabledAnswers503 ==
    NormalizeFlag(env.AI_ENABLED) # "true" =>
        /\ pc = "idle"
        /\ loc = NoLocals
        /\ calls > 0 => (resp.status = 503 /\ resp.cause = "ai_disabled")
        /\ resp.last = NoItem
        /\ resp.results = <<>>
        /\ notifs = <<>>
        /\ \A t \in TaskIds :
              /\ ~tasks[t].has_estimate
              /\ tasks[t].described_by = "none"
              /\ tasks[t].source = "manual"
              /\ tasks[t].description = InitialDescription(t)

C29_Witness ==
    /\ env.AI_ENABLED = "1"
    /\ UpstreamConfigured
    /\ calls = MaxCalls
    /\ resp.op = "project_summary"
    /\ resp.status = 503

\* The tasks whose estimate the ending batch call has stored: the row has
\* an estimate and the call's ai_estimate_done notification, added in the
\* same transaction, is stored with it.
PersistedByCall ==
    {t \in TaskIds :
        /\ tasks'[t].has_estimate
        /\ \E k \in (Len(notifs) + 1)..Len(notifs') :
              notifs'[k].type = "ai_estimate_done" /\ notifs'[k].task_id = t}

\* C30: when a batch estimate ends with its answer, the count in its
\* ai_batch_done notification is the number of results it returns, and
\* that is the number of tasks whose estimate the call has stored.
C30_CountsAgree ==
    [][(pc = "estimate_all" /\ pc' = "idle" /\ resp'.status = 200) =>
          /\ notifs'[Len(notifs')].type = "ai_batch_done"
          /\ notifs'[Len(notifs')].n = Len(resp'.results)
          /\ Len(resp'.results) = Cardinality(PersistedByCall)]_vars

====
